---- MODULE Spec2Model ----
(***************************************************************************)
(* Football Analytics API: the six GET data endpoints of routes/tactical   *)
(* and routes/decisions, the upload endpoint of routes/upload and the two  *)
(* endpoints of main, served by concurrent workers over the dummy_data     *)
(* directory.                                                              *)
(*                                                                         *)
(* A file's text is a sequence of JSON tokens (punctuation, strings,       *)
(* numbers, literals, and " " for whitespace).  A parsed value, and a      *)
(* response body, is the same document in compact form (no whitespace).    *)
(***************************************************************************)
EXTENDS Integers, Sequences, FiniteSets, TLC

\* Number of worker slots serving requests at the same time.
NumClients == 2
\* Number of fixture files that differ from the shipped ones in a directory
\* that never changes.
MaxDeviations == 2
\* Number of fixture files the environment may have changed at any one time.
MaxChanged == 1

Clients == 1..NumClients

VARIABLES
  disk,   \* the files of dummy_data (and any file an upload would store)
  req     \* per worker slot: the request it serves, its locals, its response

vars == <<disk, req>>

------------------------------------------------------------------------------
(* Endpoints and the fixture each one loads *)

TacticalEndpoints == {"heatmap", "pass-network", "tracking"}
DecisionEndpoints == {"offside", "fouls", "goal-prediction"}
GetEndpoints == TacticalEndpoints \cup DecisionEndpoints

FixtureOf(ep) ==
  CASE ep = "heatmap" -> "heatmap.json"
    [] ep = "pass-network" -> "pass_network.json"
    [] ep = "tracking" -> "tracking.json"
    [] ep = "offside" -> "offside.json"
    [] ep = "fouls" -> "fouls.json"
    [] ep = "goal-prediction" -> "goal_prediction.json"

Fixtures == {FixtureOf(ep) : ep \in GetEndpoints}

\* response_model of the route decorator
ResponseModel(ep) ==
  IF ep \in {"pass-network", "goal-prediction"} THEN "Dict" ELSE "ListOfDict"

------------------------------------------------------------------------------
(* JSON texts *)

WS == " "
StringTokens ==
  {"\"x\"", "\"y\"", "\"intensity\"", "\"passes\"", "\"from\"", "\"to\"",
   "\"count\"", "\"player_id\"", "\"timestamp\"", "\"speed\"",
   "\"is_correct\"", "\"foul_id\"", "\"severity\"", "\"minor\"",
   "\"shot_x\"", "\"shot_y\"", "\"xG\"", "\"is_goal\"",
   "\"message\"", "\"version\"", "\"docs\"", "\"status\"",
   "\"Welcome to Football Analytics API\"", "\"1.0.0\"", "\"/docs\"",
   "\"healthy\""}

\* A number token and its value in hundredths.
NumberValue(tok) ==
  CASE tok = "-1" -> -100
    [] tok = "0.45" -> 45
    [] tok = "0.7" -> 70
    [] tok = "1" -> 100
    [] tok = "1.5" -> 150
    [] tok = "5" -> 500
    [] tok = "8" -> 800
    [] tok = "9" -> 900
    [] tok = "10" -> 1000
    [] tok = "12" -> 1200
    [] tok = "20" -> 2000
    [] tok = "30" -> 3000
    [] tok = "45.0" -> 4500
    [] tok = "50" -> 5000
    [] tok = "70" -> 7000
    [] tok = "85.2" -> 8520
    [] tok = "101" -> 10100
    [] tok = "120.5" -> 12050
    [] tok = "245.3" -> 24530

NumberTokens ==
  {"-1", "0.45", "0.7", "1", "1.5", "5", "8", "9", "10", "12", "20", "30",
   "45.0", "50", "70", "85.2", "101", "120.5", "245.3"}

LiteralTokens == {"true", "false", "null"}

ScalarTokens == StringTokens \cup NumberTokens \cup LiteralTokens

\* The scanner skips whitespace between tokens.
Strip(text) == SelectSeq(text, LAMBDA tok : tok # WS)

RECURSIVE ValueEnd(_, _)
RECURSIVE ElementsEnd(_, _)
RECURSIVE MembersEnd(_, _)

\* The index after the JSON value that starts at t[i]; 0 when there is none.
ValueEnd(t, i) ==
  IF i > Len(t) THEN 0
  ELSE IF t[i] \in ScalarTokens THEN i + 1
  ELSE IF t[i] = "[" THEN
    IF i + 1 <= Len(t) /\ t[i + 1] = "]" THEN i + 2 ELSE ElementsEnd(t, i + 1)
  ELSE IF t[i] = "{" THEN
    IF i + 1 <= Len(t) /\ t[i + 1] = "}" THEN i + 2 ELSE MembersEnd(t, i + 1)
  ELSE 0

\* The index after the "]" closing the array whose next element starts at t[i].
ElementsEnd(t, i) ==
  LET e == ValueEnd(t, i) IN
    IF e = 0 \/ e > Len(t) THEN 0
    ELSE IF t[e] = "," THEN ElementsEnd(t, e + 1)
    ELSE IF t[e] = "]" THEN e + 1
    ELSE 0

\* The index after the "}" closing the object whose next member starts at t[i].
MembersEnd(t, i) ==
  IF i + 1 > Len(t) \/ t[i] \notin StringTokens \/ t[i + 1] # ":" THEN 0
  ELSE LET e == ValueEnd(t, i + 2) IN
    IF e = 0 \/ e > Len(t) THEN 0
    ELSE IF t[e] = "," THEN MembersEnd(t, e + 1)
    ELSE IF t[e] = "}" THEN e + 1
    ELSE 0

\* json.load: the document, or JSONDecodeError (ok = FALSE).
JsonLoad(text) ==
  LET t == Strip(text) IN
    IF ValueEnd(t, 1) = Len(t) + 1
    THEN [ok |-> TRUE, val |-> t]
    ELSE [ok |-> FALSE, val |-> <<>>]

RECURSIVE ElementStarts(_, _)
\* The indexes at which the elements of the array start, from element t[i] on.
ElementStarts(t, i) ==
  IF t[i] = "]" THEN {}
  ELSE LET e == ValueEnd(t, i) IN
    {i} \cup (IF t[e] = "," THEN ElementStarts(t, e + 1) ELSE {})

IsDict(v) == v[1] = "{"
IsList(v) == v[1] = "["

\* Every route declared with response_model=Dict[str, Any].
ValidatesAsDictOnly(model, v) == IsDict(v)

\* Every route declared without a response_model.
ValidatesAsAny(model, v) == TRUE

\* Validation of a returned value against the route's response_model.
ValidatesAs(model, v) ==
  IF model = "Dict" THEN IsDict(v)
  ELSE IsList(v) /\ \A i \in ElementStarts(v, 2) : v[i] = "{"

------------------------------------------------------------------------------
(* The dummy_data directory *)

HeatmapText(intensity) ==
  <<"[", WS, "{", "\"x\"", ":", "20", ",", "\"y\"", ":", "50", ",",
    "\"intensity\"", ":", intensity, "}", WS, "]">>

PassNetworkText(count) ==
  <<"{", "\"passes\"", ":", WS, "[", "{", "\"from\"", ":", "8", ",",
    "\"to\"", ":", "10", ",", "\"count\"", ":", count, "}", "]", "}">>

TrackingText(speed) ==
  <<"[", "{", "\"player_id\"", ":", "10", ",", "\"timestamp\"", ":", "120.5",
    ",", "\"x\"", ":", "45.0", ",", "\"y\"", ":", "30", ",",
    "\"speed\"", ":", speed, "}", "]">>

OffsideText(timestamp) ==
  <<"[", "{", "\"player_id\"", ":", "9", ",", "\"timestamp\"", ":", timestamp,
    ",", "\"x\"", ":", "85.2", ",", "\"y\"", ":", "45.0", ",",
    "\"is_correct\"", ":", "true", "}", "]">>

FoulsText(y) ==
  <<"[", "{", "\"foul_id\"", ":", "1", ",", "\"timestamp\"", ":", "120.5",
    ",", "\"x\"", ":", "50", ",", "\"y\"", ":", y, ",",
    "\"severity\"", ":", "\"minor\"", ",", "\"is_correct\"", ":", "true",
    "}", WS, "]">>

GoalPredictionText(xG) ==
  <<"{", WS, "\"shot_x\"", ":", "30", ",", "\"shot_y\"", ":", "70", ",",
    "\"xG\"", ":", xG, ",", "\"is_goal\"", ":", "false", WS, "}">>

\* The fixture as shipped: every numeric field within its declared bounds.
ShippedText(f) ==
  CASE f = "heatmap.json" -> HeatmapText("0.7")
    [] f = "pass_network.json" -> PassNetworkText("12")
    [] f = "tracking.json" -> TrackingText("5")
    [] f = "offside.json" -> OffsideText("245.3")
    [] f = "fouls.json" -> FoulsText("30")
    [] f = "goal_prediction.json" -> GoalPredictionText("0.45")

\* The same records with one numeric field outside its declared bounds.
OutOfBoundsText(f) ==
  CASE f = "heatmap.json" -> HeatmapText("1.5")
    [] f = "pass_network.json" -> PassNetworkText("-1")
    [] f = "tracking.json" -> TrackingText("-1")
    [] f = "offside.json" -> OffsideText("-1")
    [] f = "fouls.json" -> FoulsText("101")
    [] f = "goal_prediction.json" -> GoalPredictionText("1.5")

\* A file cut off in the middle of a record.
TruncatedText == <<"[", "{", "\"x\"", ":">>

\* Valid JSON of another top-level shape than the endpoint declares.
OtherShapeTexts(f) ==
  CASE f = "heatmap.json" -> {<<"{", "}">>, <<"[", "1", "]">>}
    [] f = "goal_prediction.json" -> {<<"[", "]">>, <<"1">>}
    [] f = "pass_network.json" -> {<<"[", "]">>}
    [] OTHER -> {<<"{", "}">>}

\* The texts a fixture file may hold.
TextsOf(f) ==
  {ShippedText(f), OutOfBoundsText(f), TruncatedText} \cup OtherShapeTexts(f)

UploadNames == {"match.mp4", "photo.png"}
Files == Fixtures \cup UploadNames

Absent == [exists |-> FALSE, text |-> <<>>]
FileWith(t) == [exists |-> TRUE, text |-> t]

ShippedDisk == [f \in Files |-> IF f \in Fixtures THEN FileWith(ShippedText(f)) ELSE Absent]

Deviations(d) == Cardinality({f \in Files : d[f] # ShippedDisk[f]})

\* What a fixture file may be: missing, or holding one of its texts.
ContentsOf(f) == {Absent} \cup {FileWith(t) : t \in TextsOf(f)}

RECURSIVE DisksWithin(_)
\* The directories in which at most k fixture files differ from the shipped ones.
DisksWithin(k) ==
  IF k = 0 THEN {ShippedDisk}
  ELSE LET fewer == DisksWithin(k - 1) IN
    fewer \cup UNION {{[d EXCEPT ![f] = x] : d \in fewer, x \in ContentsOf(f)} :
                      f \in Fixtures}

------------------------------------------------------------------------------
(* Uploads *)

None == [none |-> TRUE, chars |-> <<>>]
Str(s) == [none |-> FALSE, chars |-> s]

VideoMp4 == Str(<<"v", "i", "d", "e", "o", "/", "m", "p", "4">>)
ImagePng == Str(<<"i", "m", "a", "g", "e", "/", "p", "n", "g">>)
VideoNoSlash == Str(<<"v", "i", "d", "e", "o">>)
VideoUpper == Str(<<"V", "i", "d", "e", "o", "/", "m", "p", "4">>)
ContentTypes == {None, Str(<<>>), VideoMp4, ImagePng, VideoNoSlash, VideoUpper}

VideoPrefix == <<"v", "i", "d", "e", "o", "/">>

\* str.startswith
StartsWith(s, prefix) ==
  Len(s) >= Len(prefix) /\ SubSeq(s, 1, Len(prefix)) = prefix

\* Truth value of an Optional[str]: None and "" are false.
Truthy(ct) == ~ct.none /\ Len(ct.chars) > 0

\* The test written with the prefix 'video', without the slash.
NotAVideoNoSlash(ct) ==
  ~Truthy(ct) \/ ~StartsWith(ct.chars, <<"v", "i", "d", "e", "o">>)

\* The test of upload_video that raises HTTPException(400).
NotAVideo(ct) == ~Truthy(ct) \/ ~StartsWith(ct.chars, VideoPrefix)

------------------------------------------------------------------------------
(* Responses *)

NoResponse ==
  [status |-> 0, detail |-> <<>>, body |-> <<>>, message |-> "",
   video_id |-> 0, filename |-> "", content_type |-> None]

HTTPException(status_code, detail) ==
  [NoResponse EXCEPT !.status = status_code, !.detail = detail]

\* What the server answers when a handler or the response validation raises
\* anything but an HTTPException.
InternalServerError == HTTPException(500, <<"Internal Server Error">>)

\* A missing file reported with the status of a parse failure.
NotFoundAs500(filename) == HTTPException(500, <<"Data file ", filename, " not found">>)

NotFound(filename) == HTTPException(404, <<"Data file ", filename, " not found">>)

\* The except clause swallowing the error and returning an empty list.
ParseErrorSwallowed(filename) ==
  [NoResponse EXCEPT !.status = 200, !.body = <<"[", "]">>]

ParseError(filename) == HTTPException(500, <<"Error parsing ", filename>>)
NotVideo == HTTPException(400, <<"File must be a video">>)

JsonResponse(content) == [NoResponse EXCEPT !.status = 200, !.body = content]

\* The acknowledgment with an id that counts the uploads already acknowledged.
UploadAckCounting(filename, content_type) ==
  [NoResponse EXCEPT !.status = 200,
                     !.message = "Video uploaded successfully",
                     !.video_id = 1 + Cardinality({c \in Clients :
                                      req[c].resp.message = "Video uploaded successfully"}),
                     !.filename = filename,
                     !.content_type = content_type]

UploadAck(filename, content_type) ==
  [NoResponse EXCEPT !.status = 200,
                     !.message = "Video uploaded successfully",
                     !.video_id = 1,
                     !.filename = filename,
                     !.content_type = content_type]

RootBody ==
  <<"{", "\"message\"", ":", "\"Welcome to Football Analytics API\"", ",",
    "\"version\"", ":", "\"1.0.0\"", ",", "\"docs\"", ":", "\"/docs\"", "}">>
HealthBody == <<"{", "\"status\"", ":", "\"healthy\"", "}">>

------------------------------------------------------------------------------
(* Worker slots *)

Idle ==
  [pc |-> "idle", ep |-> "none", filename |-> "", content_type |-> None,
   text |-> <<>>, val |-> <<>>, resp |-> NoResponse]

\* A slot takes a new request once the previous response is out.
Free(c) == req[c].pc \in {"idle", "done"}

Done(slot, response) ==
  [slot EXCEPT !.pc = "done", !.text = <<>>, !.val = <<>>, !.resp = response]

\* A loader that keeps the last document it served for the file.
ReadTextCached(d, f) ==
  LET hits == {c \in Clients : /\ req[c].pc = "done"
                               /\ req[c].ep \in GetEndpoints
                               /\ FixtureOf(req[c].ep) = f
                               /\ req[c].resp.status = 200}
  IN IF hits # {} THEN req[CHOOSE c \in hits : TRUE].resp.body ELSE d[f].text

\* A loader that reads into one buffer shared by all requests.
ReadTextShared(d, f) ==
  LET busy == {c \in Clients : req[c].pc = "parse"}
  IN IF busy # {} THEN req[CHOOSE c \in busy : TRUE].text ELSE d[f].text

\* open(file_path): what a read of the file returns.
ReadText(d, f) == d[f].text

\* An upload handler that saves the file under its name.
AfterUploadSaved(d, filename) == [d EXCEPT ![filename] = FileWith(<<>>)]

\* What an upload leaves on the disk: the handler never reads or saves the file.
AfterUpload(d, filename) == d

------------------------------------------------------------------------------
(* GET data endpoints: load_json_file, step by step *)

\* file_path.exists(), on arrival of GET <ep>
CheckExists(c, ep) ==
  /\ Free(c)
  /\ LET f == FixtureOf(ep)
         slot == [Idle EXCEPT !.ep = ep]
     IN req' = [req EXCEPT ![c] =
                  IF ~disk[f].exists
                  THEN Done(slot, NotFound(f))
                  ELSE [slot EXCEPT !.pc = "open"]]
  /\ UNCHANGED disk

\* open(file_path, 'r') and the read of json.load
OpenFile(c) ==
  /\ req[c].pc = "open"
  /\ LET f == FixtureOf(req[c].ep)
     IN req' = [req EXCEPT ![c] =
                  IF ~disk[f].exists
                  THEN Done(@, InternalServerError)   \* FileNotFoundError
                  ELSE [@ EXCEPT !.pc = "parse", !.text = ReadText(disk, f)]]
  /\ UNCHANGED disk

\* the decoding of json.load, and the except clause
ParseJson(c) ==
  /\ req[c].pc = "parse"
  /\ LET r == JsonLoad(req[c].text)
     IN req' = [req EXCEPT ![c] =
                  IF r.ok
                  THEN [@ EXCEPT !.pc = "respond", !.text = <<>>, !.val = r.val]
                  ELSE Done(@, ParseError(FixtureOf(@.ep)))]
  /\ UNCHANGED disk

\* the handler returns; the value is validated as the response_model and sent
Respond(c) ==
  /\ req[c].pc = "respond"
  /\ req' = [req EXCEPT ![c] =
               IF ValidatesAs(ResponseModel(@.ep), @.val)
               THEN Done(@, JsonResponse(@.val))
               ELSE Done(@, InternalServerError)]
  /\ UNCHANGED disk

------------------------------------------------------------------------------
(* The other endpoints *)

UploadVideo(c, filename, content_type) ==
  /\ Free(c)
  /\ LET slot == [Idle EXCEPT !.ep = "upload-video", !.filename = filename,
                              !.content_type = content_type]
     IN req' = [req EXCEPT ![c] =
                  IF NotAVideo(content_type)
                  THEN Done(slot, NotVideo)
                  ELSE Done(slot, UploadAck(filename, content_type))]
  /\ disk' = AfterUpload(disk, filename)

Root(c) ==
  /\ Free(c)
  /\ req' = [req EXCEPT ![c] = Done([Idle EXCEPT !.ep = "root"], JsonResponse(RootBody))]
  /\ UNCHANGED disk

HealthCheck(c) ==
  /\ Free(c)
  /\ req' = [req EXCEPT ![c] = Done([Idle EXCEPT !.ep = "health"], JsonResponse(HealthBody))]
  /\ UNCHANGED disk

------------------------------------------------------------------------------
(* The environment: whoever maintains dummy_data *)

EnvWrite(f, t) ==
  /\ disk[f] # FileWith(t)
  /\ disk' = [disk EXCEPT ![f] = FileWith(t)]
  /\ Deviations(disk') <= MaxChanged
  /\ UNCHANGED req

EnvRemove(f) ==
  /\ disk[f].exists
  /\ disk' = [disk EXCEPT ![f] = Absent]
  /\ Deviations(disk') <= MaxChanged
  /\ UNCHANGED req

------------------------------------------------------------------------------
(* Specifications *)

Init ==
  /\ disk = ShippedDisk
  /\ req = [c \in Clients |-> Idle]

\* Any fixture state within the bound, never changed afterwards.
InitStatic ==
  /\ disk \in DisksWithin(MaxDeviations)
  /\ req = [c \in Clients |-> Idle]

ServiceNext ==
  \E c \in Clients :
    \/ \E ep \in GetEndpoints : CheckExists(c, ep)
    \/ OpenFile(c)
    \/ ParseJson(c)
    \/ Respond(c)
    \/ \E filename \in UploadNames, content_type \in ContentTypes :
         UploadVideo(c, filename, content_type)
    \/ Root(c)
    \/ HealthCheck(c)

EnvNext ==
  \E f \in Fixtures :
    \/ \E t \in TextsOf(f) : EnvWrite(f, t)
    \/ EnvRemove(f)

Quiescent == \A c \in Clients : Free(c)

Next == ServiceNext \/ EnvNext
NextSeq == ServiceNext \/ (Quiescent /\ EnvNext)

\* Requests interleaved with changes to the fixtures at any moment.
Spec == Init /\ [][Next]_vars
\* The fixtures change only between requests.
SpecSeq == Init /\ [][NextSeq]_vars
\* The fixtures never change.
SpecStatic == InitStatic /\ [][ServiceNext]_vars

------------------------------------------------------------------------------
(* Vocabulary of the properties *)

\* Slot c holds the response to a GET of a data endpoint.
GetDone(c) == req[c].pc = "done" /\ req[c].ep \in GetEndpoints
\* Slot c holds the response to an upload.
UploadDone(c) == req[c].pc = "done" /\ req[c].ep = "upload-video"

\* The fixture file of the endpoint slot c serves, as it is on the disk.
FixtureFile(c) == disk[FixtureOf(req[c].ep)]

HoldsValidJson(file) == file.exists /\ JsonLoad(file.text).ok
ParsedContent(file) == JsonLoad(file.text).val

\* The top-level shape an endpoint declares for its response.
DeclaresList(ep) == ep \in {"heatmap", "tracking", "offside", "fouls"}
IsObjectDoc(v) == Len(v) > 0 /\ v[1] = "{"
IsListOfObjectsDoc(v) ==
  /\ Len(v) > 0
  /\ v[1] = "["
  /\ \A i \in ElementStarts(v, 2) : v[i] = "{"
HasDeclaredShape(ep, v) ==
  IF DeclaresList(ep) THEN IsListOfObjectsDoc(v) ELSE IsObjectDoc(v)

\* The declared media type begins with "video/".
BeginsWithVideo(ct) ==
  /\ ~ct.none
  /\ Len(ct.chars) >= 6
  /\ <<ct.chars[1], ct.chars[2], ct.chars[3], ct.chars[4], ct.chars[5], ct.chars[6]>>
       = <<"v", "i", "d", "e", "o", "/">>

\* The bounds the schemas declare for a numeric field, in hundredths
\* (hi = -1: no upper bound).
FieldBounds(key) ==
  CASE key \in {"\"intensity\"", "\"xG\""} -> [lo |-> 0, hi |-> 100]
    [] key \in {"\"x\"", "\"y\"", "\"shot_x\"", "\"shot_y\""} -> [lo |-> 0, hi |-> 10000]
    [] key \in {"\"timestamp\"", "\"speed\"", "\"count\""} -> [lo |-> 0, hi |-> -1]

BoundedFields ==
  {"\"intensity\"", "\"xG\"", "\"x\"", "\"y\"", "\"shot_x\"", "\"shot_y\"",
   "\"timestamp\"", "\"speed\"", "\"count\""}

\* Document v has a member key : number with the number outside the key's bounds.
HasOutOfBoundsField(v) ==
  \E i \in 1..(Len(v) - 2) :
    /\ v[i] \in BoundedFields
    /\ v[i + 1] = ":"
    /\ v[i + 2] \in NumberTokens
    /\ LET b == FieldBounds(v[i])
           n == NumberValue(v[i + 2])
       IN n < b.lo \/ (b.hi >= 0 /\ n > b.hi)

\* The response to the request of a slot when it is served with nothing else
\* going on, over directory d.
ServedAlone(slot, d) ==
  IF slot.ep \in GetEndpoints THEN
    LET f == FixtureOf(slot.ep) IN
      IF ~d[f].exists THEN NotFound(f)
      ELSE IF ~JsonLoad(d[f].text).ok THEN ParseError(f)
      ELSE IF HasDeclaredShape(slot.ep, JsonLoad(d[f].text).val)
           THEN JsonResponse(JsonLoad(d[f].text).val)
           ELSE InternalServerError
  ELSE IF slot.ep = "upload-video" THEN
    IF BeginsWithVideo(slot.content_type)
    THEN UploadAck(slot.filename, slot.content_type)
    ELSE NotVideo
  ELSE IF slot.ep = "root" THEN JsonResponse(RootBody)
  ELSE JsonResponse(HealthBody)

------------------------------------------------------------------------------
(* Properties *)

\* C1, as stated: for each of the six GET endpoints, whenever the fixture file
\* exists and holds valid JSON, the response is 200 with a body equal to the
\* parsed content of the file.
C1_ValidJsonServedUnchanged ==
  \A c \in Clients :
    (GetDone(c) /\ HoldsValidJson(FixtureFile(c)))
      => /\ req[c].resp.status = 200
         /\ req[c].resp.body = ParsedContent(FixtureFile(c))

\* C1, amended: for each of the six GET endpoints, whenever the fixture file
\* exists and holds valid JSON of the top-level shape the endpoint declares,
\* the response is 200 with a body equal to the parsed content of the file.
C1_ConformingJsonServedUnchanged ==
  \A c \in Clients :
    (/\ GetDone(c)
     /\ HoldsValidJson(FixtureFile(c))
     /\ HasDeclaredShape(req[c].ep, ParsedContent(FixtureFile(c))))
      => /\ req[c].resp.status = 200
         /\ req[c].resp.body = ParsedContent(FixtureFile(c))

\* A served fixture whose text differs from the body (whitespace) and whose
\* content is not the shipped one.
C1_Witness ==
  \E c \in Clients :
    /\ GetDone(c)
    /\ HoldsValidJson(FixtureFile(c))
    /\ HasDeclaredShape(req[c].ep, ParsedContent(FixtureFile(c)))
    /\ FixtureFile(c) # ShippedDisk[FixtureOf(req[c].ep)]
    /\ FixtureFile(c).text # req[c].resp.body
    /\ req[c].resp.status = 200

\* C2: a GET of a data endpoint whose fixture file is absent ends with 404,
\* straight from the existence check: the request never reaches the open or
\* the parse, and never answers 200 or 500, whatever the other fixtures hold.
C2_AbsentFixtureIs404 ==
  \A c \in Clients :
    (req[c].ep \in GetEndpoints /\ ~FixtureFile(c).exists)
      => /\ req[c].pc = "done"
         /\ req[c].resp.status = 404
         /\ req[c].resp.body = <<>>

\* A 404 for an absent fixture while another fixture is not the shipped one.
C2_Witness ==
  \E c \in Clients :
    /\ GetDone(c)
    /\ ~FixtureFile(c).exists
    /\ req[c].resp.status = 404
    /\ \E g \in Fixtures : g # FixtureOf(req[c].ep) /\ disk[g] # ShippedDisk[g]

\* C3: a GET of a data endpoint whose fixture file exists but does not hold
\* valid JSON ends with 500, and nothing of the file is sent as a body.
C3_InvalidJsonIs500 ==
  \A c \in Clients :
    (GetDone(c) /\ FixtureFile(c).exists /\ ~JsonLoad(FixtureFile(c).text).ok)
      => /\ req[c].resp.status = 500
         /\ req[c].resp.body = <<>>

C3_Witness ==
  \E c \in Clients :
    /\ GetDone(c)
    /\ FixtureFile(c).exists
    /\ ~JsonLoad(FixtureFile(c).text).ok
    /\ req[c].resp.status = 500

\* C4: an upload whose declared content type does not begin with "video/"
\* (a missing or an empty one included) is answered 400 and never gets the
\* acknowledgment.
C4_NonVideoIs400 ==
  \A c \in Clients :
    (UploadDone(c) /\ ~BeginsWithVideo(req[c].content_type))
      => /\ req[c].resp.status = 400
         /\ req[c].resp.message = ""
         /\ req[c].resp.video_id = 0

\* Rejected uploads with no content type and with one that begins with
\* "video" but not "video/".
C4_Witness ==
  \E c1, c2 \in Clients :
    /\ UploadDone(c1) /\ req[c1].content_type = None /\ req[c1].resp.status = 400
    /\ UploadDone(c2) /\ req[c2].content_type = VideoNoSlash /\ req[c2].resp.status = 400

\* C5: an upload whose declared content type begins with "video/" is answered
\* 200 with the request's filename and content type, the fixed message and
\* video_id 1, however many uploads came before.
C5_VideoAcknowledged ==
  \A c \in Clients :
    (UploadDone(c) /\ BeginsWithVideo(req[c].content_type))
      => /\ req[c].resp.status = 200
         /\ req[c].resp.message = "Video uploaded successfully"
         /\ req[c].resp.video_id = 1
         /\ req[c].resp.filename = req[c].filename
         /\ req[c].resp.content_type = req[c].content_type

\* Two acknowledged uploads of different files, both with video_id 1.
C5_Witness ==
  \E c1, c2 \in Clients :
    /\ UploadDone(c1) /\ UploadDone(c2)
    /\ req[c1].resp.status = 200 /\ req[c2].resp.status = 200
    /\ req[c1].resp.filename = "match.mp4" /\ req[c2].resp.filename = "photo.png"
    /\ req[c1].resp.video_id = 1 /\ req[c2].resp.video_id = 1

\* C6, as stated: no 200 response of a GET data endpoint contains a record
\* with a numeric field outside the bounds its schema declares.
C6_NoOutOfBoundsServed ==
  \A c \in Clients :
    (GetDone(c) /\ req[c].resp.status = 200)
      => ~HasOutOfBoundsField(req[c].resp.body)

\* C7: no step of a request (a GET of a data endpoint, GET /, GET /health or
\* an upload, succeeding or failing, in any interleaving) changes the set of
\* files or the content of any file.
C7_RequestsNeverWrite ==
  [][(\E c \in Clients : req'[c] # req[c]) => disk' = disk]_vars

\* An acknowledged upload whose file is not on the disk, next to a failed GET.
C7_Witness ==
  \E c1, c2 \in Clients :
    /\ UploadDone(c1) /\ req[c1].resp.status = 200
    /\ ~disk[req[c1].filename].exists
    /\ GetDone(c2) /\ req[c2].resp.status # 200

\* C8: with the fixtures changing only between requests, every GET of a data
\* endpoint that completes answers from the fixture as it is on the disk then:
\* 404 when it is absent, 500 when it is not valid JSON, its content when it
\* is servable, whatever earlier requests returned.
C8_AnswersFromCurrentFixture ==
  [][\A c \in Clients :
       (req'[c] # req[c] /\ req'[c].pc = "done" /\ req'[c].ep \in GetEndpoints)
         => LET expected == ServedAlone(req'[c], disk) IN
              /\ req'[c].resp.status = expected.status
              /\ req'[c].resp.body = expected.body]_vars

\* Two responses of one endpoint, the earlier with the shipped content and the
\* later with the content that replaced it.
C8_Witness ==
  \E c1, c2 \in Clients : \E ep \in GetEndpoints :
    /\ GetDone(c1) /\ GetDone(c2)
    /\ req[c1].ep = ep /\ req[c2].ep = ep
    /\ req[c1].resp.body = JsonLoad(ShippedText(FixtureOf(ep))).val
    /\ req[c2].resp.body = JsonLoad(OutOfBoundsText(FixtureOf(ep))).val
    /\ disk[FixtureOf(ep)] = FileWith(OutOfBoundsText(FixtureOf(ep)))

\* C9: over fixtures that do not change, in every interleaving of the steps of
\* concurrent requests, each response is the one the request gets when served
\* alone, and identical requests get identical responses.
C9_InterleavingIsInvisible ==
  /\ \A c \in Clients :
       req[c].pc = "done" => req[c].resp = ServedAlone(req[c], disk)
  /\ \A c1, c2 \in Clients :
       (/\ req[c1].pc = "done" /\ req[c2].pc = "done"
        /\ req[c1].ep = req[c2].ep
        /\ req[c1].filename = req[c2].filename
        /\ req[c1].content_type = req[c2].content_type)
         => req[c1].resp = req[c2].resp

\* A request answered while a request for another fixture is between its read
\* and its parse.
C9_Witness ==
  \E c1, c2 \in Clients :
    /\ GetDone(c1) /\ req[c1].resp.status = 200
    /\ req[c2].pc = "parse"
    /\ req[c2].ep # req[c1].ep

\* C10: a fixture that is valid JSON but not of the top-level shape its
\* endpoint declares is never returned with 200: the request ends with a
\* server error and no body.
C10_OtherShapeIs500 ==
  \A c \in Clients :
    (/\ GetDone(c)
     /\ HoldsValidJson(FixtureFile(c))
     /\ ~HasDeclaredShape(req[c].ep, ParsedContent(FixtureFile(c))))
      => /\ req[c].resp.status = 500
         /\ req[c].resp.body = <<>>

\* Server errors for an object where a list is declared, for a list with an
\* element that is no object, and for a scalar where an object is declared.
C10_Witness ==
  \E c1, c2 \in Clients :
    /\ GetDone(c1) /\ req[c1].ep = "heatmap"
    /\ FixtureFile(c1).exists /\ FixtureFile(c1).text \in {<<"{", "}">>, <<"[", "1", "]">>}
    /\ req[c1].resp.status = 500
    /\ GetDone(c2) /\ req[c2].ep = "goal-prediction"
    /\ FixtureFile(c2).exists /\ FixtureFile(c2).text = <<"1">>
    /\ req[c2].resp.status = 500

====
